---- MODULE Spec2Model ----
(***************************************************************************)
(* Model of version.py, the build hook that computes the firmware version  *)
(* from `git describe --tags --always` and registers it as the             *)
(* FIRMWARE_VERSION preprocessor define.                                   *)
(*                                                                         *)
(* Strings and byte strings are sequences of code points / byte values.    *)
(***************************************************************************)
EXTENDS Integers, Sequences, FiniteSets, TLC

VARIABLES pc, exports, env, env0, output, version, caught, raised,
          gitCalls, assigns, registers

vars == <<pc, exports, env, env0, output, version, caught, raised,
          gitCalls, assigns, registers>>

\* ------------------------------------------------------------------ bounds

\* longest byte string the git process is taken to write on stdout
MaxLen == 5

\* ------------------------------------------------------------- characters

\* 'v', the character set handed to lstrip
PrefixChar == 118

\* byte values git may write: 'v' 'd' 'e' '1' '\n' and 0xFF (never valid UTF-8)
Bytes == {118, 100, 101, 49, 10, 255}

\* the code points str.strip() removes (str.isspace, ASCII range)
Whitespace == {9, 10, 11, 12, 13, 28, 29, 30, 31, 32}

\* 0-9 a-f
HexDigits == (48..57) \cup (97..102)

\* the literal "dev" of the except clause
Sentinel == <<100, 101, 118>>

\* every stdout content of at most MaxLen bytes
Outputs == UNION {[1..n -> Bytes] : n \in 0..MaxLen}

\* ------------------------------------------------------- string functions

\* bytes.decode() with the default codec (UTF-8) succeeds on these bytes
Decodable(b) == \A i \in 1..Len(b) : b[i] < 128

\* bytes.decode(): an ASCII byte is the code point of the same value
Decode(b) == [i \in 1..Len(b) |-> b[i]]

\* str.removeprefix-like: drops at most one leading character of chars
LStripOne(s, chars) ==
    IF s # <<>> /\ Head(s) \in chars THEN Tail(s) ELSE s

RECURSIVE LStrip(_, _)
\* str.lstrip(chars): drops every leading character that is in chars
LStrip(s, chars) ==
    IF s = <<>> \/ Head(s) \notin chars THEN s ELSE LStrip(Tail(s), chars)

RECURSIVE RStrip(_, _)
\* str.rstrip(chars)
RStrip(s, chars) ==
    IF s = <<>> \/ s[Len(s)] \notin chars THEN s
    ELSE RStrip(SubSeq(s, 1, Len(s) - 1), chars)

\* only the trailing whitespace is removed
StripTrailingOnly(s) == RStrip(s, Whitespace)

\* str.strip(): whitespace removed from both ends
Strip(s) == RStrip(LStrip(s, Whitespace), Whitespace)

\* .strip() followed by the removal of a single leading 'v'
NormalizeStrOne(s) == LStripOne(Strip(s), {PrefixChar})

\* .strip().lstrip("vd")
NormalizeStrVD(s) == LStrip(Strip(s), {PrefixChar, 100})

\* .strip().lstrip("v") on the decoded text
NormalizeStr(s) == LStrip(Strip(s), {PrefixChar})

\* the try body's expression applied to the bytes check_output returned
Normalize(b) == NormalizeStr(Decode(b))

\* value.replace('"', '\\\"') of StringifyMacro, character by character
RECURSIVE EscapeQuotes(_)
EscapeQuotes(s) ==
    IF s = <<>> THEN <<>>
    ELSE (IF Head(s) = 34 THEN <<92, 92, 92, 34>> ELSE <<Head(s)>>)
         \o EscapeQuotes(Tail(s))

\* the value is passed through as it is
StringifyMacroRaw(value) == value

\* env.StringifyMacro(value): '\\"%s\\"' % value.replace('"', '\\\\\\"')
StringifyMacro(value) == <<92, 34>> \o EscapeQuotes(value) \o <<92, 34>>

\* --------------------------------------------------------------- exceptions

\* what the try body raises that derives from Exception
QueryExceptions == {"FileNotFoundError", "CalledProcessError"}

\* what the try body raises that derives from BaseException only
QueryInterrupts == {"KeyboardInterrupt"}

\* catches CalledProcessError only
CatchesCalledProcessErrorOnly(e) == e = "CalledProcessError"

\* `except Exception`: catches every class deriving from Exception
Catches(e) == e \in QueryExceptions \cup {"UnicodeDecodeError"}

\* ------------------------------------------------------------------- state

\* CPPDEFINES as the build system hands it to the hook
InitialDefines ==
    { <<>>,
      << <<"PLATFORMIO", <<49>>>> >>,
      << <<"PLATFORMIO", <<49>>>>, <<"FIRMWARE_VERSION", <<92, 34, 49, 92, 34>>>> >> }

Init ==
    /\ pc = "import"
    /\ exports \in SUBSET {"env"}
    /\ env0 \in {[CPPDEFINES |-> d, CCFLAGS |-> <<"-Os">>] : d \in InitialDefines}
    /\ env = env0
    /\ output = <<>>
    /\ version = <<>>
    /\ caught = "none"
    /\ raised = "none"
    /\ gitCalls = 0
    /\ assigns = 0
    /\ registers = 0

\* ----------------------------------------------------------------- actions

\* Import("env") when the build exported env
ImportEnv ==
    /\ pc = "import"
    /\ "env" \in exports
    /\ pc' = "try"
    /\ UNCHANGED <<exports, env, env0, output, version, caught, raised,
                   gitCalls, assigns, registers>>

\* Import("env") when nothing was exported under that name: SCons raises
ImportRaises ==
    /\ pc = "import"
    /\ "env" \notin exports
    /\ pc' = "raised"
    /\ raised' = "UserError"
    /\ UNCHANGED <<exports, env, env0, output, version, caught,
                   gitCalls, assigns, registers>>

\* the try body runs through: git exits 0 and its output decodes
DescribeSucceeds ==
    /\ pc = "try"
    /\ \E b \in Outputs :
         /\ Decodable(b)
         /\ output' = b
         /\ version' = Normalize(b)
    /\ gitCalls' = gitCalls + 1
    /\ assigns' = assigns + 1
    /\ pc' = "register"
    /\ UNCHANGED <<exports, env, env0, caught, raised, registers>>

\* where an exception e raised in the try body takes control
AfterRaise(e) ==
    IF Catches(e)
    THEN /\ pc' = "except"
         /\ caught' = e
         /\ UNCHANGED raised
    ELSE /\ pc' = "raised"
         /\ raised' = e
         /\ UNCHANGED caught

\* check_output raises: git is missing, exits non-zero, or the call is interrupted
DescribeRaises ==
    /\ pc = "try"
    /\ \E e \in QueryExceptions \cup QueryInterrupts : AfterRaise(e)
    /\ gitCalls' = gitCalls + 1
    /\ UNCHANGED <<exports, env, env0, output, version, assigns, registers>>

\* git exits 0 but .decode() raises on its output
DecodeRaises ==
    /\ pc = "try"
    /\ \E b \in Outputs :
         /\ ~Decodable(b)
         /\ output' = b
    /\ AfterRaise("UnicodeDecodeError")
    /\ gitCalls' = gitCalls + 1
    /\ UNCHANGED <<exports, env, env0, version, assigns, registers>>

\* the handler runs the query a second time
ExceptHandlerRetry ==
    /\ pc = "except"
    /\ pc' = "try"
    /\ UNCHANGED <<exports, env, env0, output, version, caught, raised,
                   gitCalls, assigns, registers>>

\* the handler leaves three spaces in place of the literal
ExceptHandlerBlank ==
    /\ pc = "except"
    /\ version' = <<32, 32, 32>>
    /\ assigns' = assigns + 1
    /\ pc' = "register"
    /\ UNCHANGED <<exports, env, env0, output, caught, raised, gitCalls, registers>>

\* except Exception: version = "dev"
ExceptHandler ==
    /\ pc = "except"
    /\ version' = Sentinel
    /\ assigns' = assigns + 1
    /\ pc' = "register"
    /\ UNCHANGED <<exports, env, env0, output, caught, raised, gitCalls, registers>>

\* the define replaces what CPPDEFINES held
RegisterOverwrites ==
    /\ pc = "register"
    /\ env' = [env EXCEPT !.CPPDEFINES =
                 << <<"FIRMWARE_VERSION", StringifyMacro(version)>> >>]
    /\ registers' = registers + 1
    /\ pc' = "done"
    /\ UNCHANGED <<exports, env0, output, version, caught, raised, gitCalls, assigns>>

\* env.Append(CPPDEFINES=[("FIRMWARE_VERSION", env.StringifyMacro(version))])
Register ==
    /\ pc = "register"
    /\ env' = [env EXCEPT !.CPPDEFINES =
                 @ \o << <<"FIRMWARE_VERSION", StringifyMacro(version)>> >>]
    /\ registers' = registers + 1
    /\ pc' = "done"
    /\ UNCHANGED <<exports, env0, output, version, caught, raised, gitCalls, assigns>>

Next ==
    \/ ImportEnv
    \/ ImportRaises
    \/ DescribeSucceeds
    \/ DescribeRaises
    \/ DecodeRaises
    \/ ExceptHandler
    \/ Register

Spec == Init /\ [][Next]_vars

\* ------------------------------------------------------- claim vocabulary

\* the run took the try body to its end and assigned version from git's output
Succeeded == assigns = 1 /\ caught = "none"

\* the run went through the except clause and assigned version there
FellBack == assigns = 1 /\ caught # "none"

\* s[from..to] lies wholly in set
AllIn(s, from, to, set) == \A k \in from..to : s[k] \in set

\* t is s without the i leading and j trailing whitespace characters, and no
\* further whitespace is left at either end of t
IsTrimOf(t, s, i, j) ==
    /\ i + j <= Len(s)
    /\ AllIn(s, 1, i, Whitespace)
    /\ AllIn(s, Len(s) - j + 1, Len(s), Whitespace)
    /\ t = SubSeq(s, i + 1, Len(s) - j)
    /\ (t # <<>> => t[1] \notin Whitespace /\ t[Len(t)] \notin Whitespace)
    /\ (t = <<>> => i = Len(s) /\ j = 0)

\* stdout is one tag name (no whitespace, ASCII) followed by one newline
IsTagLine(b) ==
    /\ Len(b) >= 2
    /\ b[Len(b)] = 10
    /\ \A k \in 1..(Len(b) - 1) : b[k] < 128 /\ b[k] \notin Whitespace

TagOf(b) == SubSeq(b, 1, Len(b) - 1)

\* stdout is an abbreviated hash: hex digits with whitespace around them only
IsHashForm(b) ==
    \E i, j \in 0..Len(b) :
        /\ i + j < Len(b)
        /\ AllIn(b, 1, i, Whitespace)
        /\ AllIn(b, Len(b) - j + 1, Len(b), Whitespace)
        /\ AllIn(b, i + 1, Len(b) - j, HexDigits)

\* s is k >= 0 characters 'v' followed by exactly d e v
IsVRunThenDev(s) ==
    /\ Len(s) >= 3
    /\ AllIn(s, 1, Len(s) - 3, {118})
    /\ SubSeq(s, Len(s) - 2, Len(s)) = <<100, 101, 118>>

\* number of entries of a CPPDEFINES list that define name
RECURSIVE CountDefines(_, _)
CountDefines(defs, name) ==
    IF defs = <<>> THEN 0
    ELSE (IF Head(defs)[1] = name THEN 1 ELSE 0) + CountDefines(Tail(defs), name)

\* ------------------------------------------------------------------ claims

\* C1: when git succeeds and prints a tag name, version is the tag with a
\* single leading 'v' removed if present, and the tag itself otherwise; a tag
\* starting with two or more 'v' loses only the first.
C1_SingleLeadingVRemoved ==
    (Succeeded /\ IsTagLine(output)) =>
        version = (IF TagOf(output)[1] = 118
                   THEN Tail(TagOf(output)) ELSE TagOf(output))

\* C2: whenever the query fails (git missing, non-zero exit, undecodable
\* output) the version string assigned is exactly "dev".
C2_FailureYieldsSentinel ==
    /\ FellBack => version = <<100, 101, 118>>
    /\ (caught # "none" /\ pc \in {"register", "done"}) => FellBack

C2_Witness ==
    /\ pc = "done"
    /\ caught = "UnicodeDecodeError"
    /\ version = <<100, 101, 118>>

\* C3: for every outcome of the query the version string is never empty and
\* never starts with 'v'.
C3_NeverEmptyNeverV ==
    assigns = 1 => (version # <<>> /\ Head(version) # 118)

\* C4: no error propagates to the caller of the hook, whatever the git query
\* and the build-environment calls do.
C4_NoErrorPropagates == pc # "raised"

\* C4 (amended): every Exception raised by the query or by the decoding of its
\* output is absorbed by the except clause; what propagates is only the error
\* of Import("env") and an interrupt that does not derive from Exception, and
\* then nothing has been registered.
C4_OnlyUncaughtErrorsPropagate ==
    /\ raised \in {"none", "UserError", "KeyboardInterrupt"}
    /\ (pc = "raised") <=> (raised # "none")
    /\ pc = "raised" => (registers = 0 /\ assigns = 0 /\ env = env0)
    /\ caught \in {"none", "FileNotFoundError", "CalledProcessError",
                   "UnicodeDecodeError"}
    /\ caught # "none" => (raised = "none" /\ pc \in {"except", "register", "done"})

C4_Witness ==
    /\ pc = "done"
    /\ caught = "FileNotFoundError"
    /\ raised = "none"

\* C5: in every completed run, on either path, exactly one define named
\* FIRMWARE_VERSION has been appended to CPPDEFINES, and its value is the
\* version string of that run between escaped double quotes.
C5_OneStringifiedDefine ==
    pc = "done" =>
        /\ registers = 1
        /\ Len(env.CPPDEFINES) = Len(env0.CPPDEFINES) + 1
        /\ CountDefines(env.CPPDEFINES, "FIRMWARE_VERSION")
             = CountDefines(env0.CPPDEFINES, "FIRMWARE_VERSION") + 1
        /\ env.CPPDEFINES[Len(env.CPPDEFINES)]
             = <<"FIRMWARE_VERSION", <<92, 34>> \o version \o <<92, 34>>>>

C5_Witness ==
    /\ pc = "done"
    /\ Succeeded
    /\ version = <<49, 118, 49>>
    /\ CountDefines(env.CPPDEFINES, "FIRMWARE_VERSION") = 2

\* C6: when git prints an abbreviated hash (hex digits, whitespace around
\* them), version is that hash without the whitespace, otherwise unchanged.
C6_HashUnchanged ==
    (Succeeded /\ IsHashForm(output)) =>
        /\ version # <<>>
        /\ AllIn(version, 1, Len(version), HexDigits)
        /\ \E i, j \in 0..Len(output) :
              /\ i + j + Len(version) = Len(output)
              /\ AllIn(output, 1, i, Whitespace)
              /\ AllIn(output, Len(output) - j + 1, Len(output), Whitespace)
              /\ version = SubSeq(output, i + 1, Len(output) - j)

C6_Witness ==
    /\ pc = "done"
    /\ output = <<10, 100, 49, 101, 10>>
    /\ version = <<100, 49, 101>>

C8_SentinelOnlyOnFailure ==
    (assigns = 1 /\ version = <<100, 101, 118>>) => caught # "none"

\* C8 (amended): a successful query yields "dev" exactly when its output,
\* whitespace aside, is "dev" preceded by zero or more 'v'; every other
\* successful output yields a string different from "dev".
C8_SentinelOnSuccessIffDevTag ==
    Succeeded =>
        ((version = <<100, 101, 118>>) <=>
           (\E i, j \in 0..Len(output) :
               \E t \in {SubSeq(output, i + 1, Len(output) - j)} :
                   IsTrimOf(t, output, i, j) /\ IsVRunThenDev(t)))

C8_Witness ==
    /\ pc = "done"
    /\ Succeeded
    /\ output = <<118, 100, 101, 118, 10>>
    /\ version = <<100, 101, 118>>

\* the parts of C9 that do not concern a second application: version is what
\* is left of the trimmed output after its whole leading run of 'v'
SuffixAfterVRun ==
    \E i, j \in 0..Len(output) :
        \E t \in {SubSeq(output, i + 1, Len(output) - j)} :
            /\ IsTrimOf(t, output, i, j)
            /\ \E k \in 0..Len(t) :
                  /\ AllIn(t, 1, k, {118})
                  /\ version = SubSeq(t, k + 1, Len(t))
                  /\ (k < Len(t) => t[k + 1] # 118)

\* C9: on the success path version is a suffix of the trimmed output, what was
\* removed in front of it is 'v' only, every later 'v' is kept, and
\* normalizing version again returns it unchanged.
C9_SuffixAndIdempotent ==
    Succeeded => (SuffixAfterVRun /\ NormalizeStr(version) = version)

\* C9 (amended): as C9, but normalizing version again returns it unchanged
\* exactly when version does not begin with whitespace (as in "v\n1", whose
\* version is "\n1").
C9_SuffixAndIdempotentUnlessLeadingSpace ==
    Succeeded =>
        /\ SuffixAfterVRun
        /\ (NormalizeStr(version) = version)
             <=> (version = <<>> \/ version[1] \notin Whitespace)

C9_Witness ==
    /\ pc = "done"
    /\ output = <<118, 118, 49, 118, 10>>
    /\ version = <<49, 118>>

\* C10: registering is a pure addition: the entries CPPDEFINES held before
\* the run are still there in the same order, the new entry comes after them,
\* and nothing else of the environment changes.
C10_PureAddition ==
    /\ DOMAIN env = DOMAIN env0
    /\ env.CCFLAGS = env0.CCFLAGS
    /\ pc # "done" => env = env0
    /\ pc = "done" =>
          /\ SubSeq(env.CPPDEFINES, 1, Len(env0.CPPDEFINES)) = env0.CPPDEFINES
          /\ Len(env.CPPDEFINES) > Len(env0.CPPDEFINES)
          /\ env.CPPDEFINES[Len(env0.CPPDEFINES) + 1][1] = "FIRMWARE_VERSION"

C10_Witness ==
    /\ pc = "done"
    /\ Len(env0.CPPDEFINES) = 2
    /\ Len(env.CPPDEFINES) = 3

====
